---- MODULE Spec2Model ----
(***************************************************************************)
(* The voice-chat session of src/components/VoiceChat.tsx as a state       *)
(* machine: the component's React state and refs, the platform resources   *)
(* the handlers acquire (microphone streams, audio contexts, script        *)
(* processors, live sessions, buffer sources), and one action per handler  *)
(* or per resumption of a suspended async handler.                         *)
(* The lesson store of src/utils/storage.ts and the analysis and lesson    *)
(* handlers of src/App.tsx that drive it follow the same pattern.          *)
(***************************************************************************)
EXTENDS Integers, Sequences, FiniteSets, TLC

\* ------------------------------------------------------------------ bounds
\* Invocations of handleStartChat in one run; the k-th invocation owns the
\* resources with id k (its stream, its two contexts, its session).
MaxStarts == 2
\* The same, in the runs that restart while an earlier start is suspended.
RestartStarts == 3
\* Inbound audio chunks handled in a lifecycle run / in a playback run.
LifeChunks == 1
PlayChunks == 3
\* The output clock stops advancing here (playback runs only).
MaxClock == 3
\* The longest chunk duration decode returns.
MaxDur == 2
\* Total length of the two transcript accumulators, and turns kept on screen.
MaxText == 2
MaxTurns == 1
\* Capture callbacks fired in one run.
MaxFrames == 1
CaptureFrames == 3
\* Calls of getVideoChapters and of generateLesson in one run of the page.
MaxAnalyses == 2
MaxGenerations == 2

NULL == 0

VARIABLES
  \* React state (VoiceChat.tsx 20-22) and whether the component is mounted
  status, error, transcript, mounted,
  \* refs (VoiceChat.tsx 24-32); a handle is NULL or the id of a resource
  sessionPromiseRef, inputAudioContextRef, outputAudioContextRef,
  scriptProcessorRef, mediaStreamRef, sourcesRef, nextStartTimeRef,
  currentInputTranscriptionRef, currentOutputTranscriptionRef,
  \* where each invocation of handleStartChat stands
  starts,
  \* platform resources
  streams, inputCtx, outputCtx, currentTime, processors, sessions, chunks,
  \* outbound audio: capture callbacks fired, sends waiting for the session
  \* promise, sends issued (each <<frame, session>>)
  frameNo, queued, sent,
  \* history: consecutive runs of cleanup() with no other handler step in
  \* between; whether cleanup() ran by stop/error/close/disposal since the
  \* last start
  cleanupRuns, tornDown,
  \* history: what the last turnComplete handled did ("none" before the first;
  \* "flushedOwn" when its message also carried a fragment)
  lastTurn,
  \* the entry of window.localStorage under STORAGE_KEY (storage.ts 3)
  localStorage,
  \* React state of App (App.tsx 19-30); App's transcript and error are
  \* appTranscript and appError here
  youtubeUrl, appTranscript, chapters, selectedChapter, lesson,
  isAnalyzing, isGenerating, appError, savedLessonsData,
  \* the suspended call of handleAnalyzeVideo and those of
  \* handleGenerateLesson, each with the values its closure captured
  analysis, generations,
  \* history: calls made so far; the last operation on the store; the URL
  \* whose analysis or saved record produced the displayed chapter list
  analyzeCalls, generateCalls, lastOp, chaptersUrl

reactVars == <<status, error, transcript, mounted>>
refVars == <<sessionPromiseRef, inputAudioContextRef, outputAudioContextRef,
             scriptProcessorRef, mediaStreamRef, sourcesRef, nextStartTimeRef>>
accVars == <<currentInputTranscriptionRef, currentOutputTranscriptionRef>>
worldVars == <<streams, inputCtx, outputCtx, processors, sessions, chunks>>
sendVars == <<frameNo, queued, sent>>
chatVars == <<reactVars, refVars, accVars, starts, worldVars, currentTime,
              sendVars, cleanupRuns, tornDown, lastTurn>>
storeVars == <<localStorage, lastOp>>
pageVars == <<youtubeUrl, appTranscript, chapters, selectedChapter, lesson,
              isAnalyzing, isGenerating, appError, savedLessonsData>>
callVars == <<analysis, generations, analyzeCalls, generateCalls, chaptersUrl>>
lessonVars == <<storeVars, pageVars, callVars>>
vars == <<chatVars, lessonVars>>

\* The ids of the invocations of handleStartChat, and of what each acquires
Ids == DOMAIN starts

\* ------------------------------------------------------------- constants
NoError == "null"
SessionErrorMsg == "An error occurred during the chat session."
MicErrorMsg == "Could not access microphone. Please check permissions and try again."

NoChunk == [state |-> "none", sess |-> NULL, ctx |-> NULL, t |-> 0,
            start |-> 0, dur |-> 0, at |-> 0]
NoProcessor == [state |-> "none", ctx |-> NULL, stream |-> NULL]
NoSession == [state |-> "none", closeReq |-> FALSE]

Max(a, b) == IF a >= b THEN a ELSE b
Min(a, b) == IF a <= b THEN a ELSE b

\* ------------------------------------------------------------------- text
\* Transcript text is a sequence of characters; " " is whitespace.
Chars == {"a", " "}

RECURSIVE TrimStart(_)
TrimStart(s) ==
  IF s = <<>> THEN <<>>
  ELSE IF Head(s) = " " THEN TrimStart(Tail(s)) ELSE s

RECURSIVE TrimEnd(_)
TrimEnd(s) ==
  IF s = <<>> THEN <<>>
  ELSE IF s[Len(s)] = " " THEN TrimEnd(SubSeq(s, 1, Len(s) - 1)) ELSE s

\* String.prototype.trim
Trim(s) == TrimEnd(TrimStart(s))

\* JavaScript truthiness of a string
Truthy(s) == s # <<>>

\* ------------------------------------------------------------ lesson store
\* A JavaScript value that may be null is the empty set or the set of the
\* one value it holds.
null == {}
Some(v) == {v}
The(s) == CHOOSE v \in s : TRUE

\* An object is a function from its keys; {} is the function of no key.
EmptyObject == <<>>
Put(obj, k, v) == [x \in DOMAIN obj \cup {k} |-> IF x = k THEN v ELSE obj[x]]

\* JSON text of an object is the set of its "key": value members. The store
\* object maps a URL to a SavedLessonData (types.ts 41-46), whose lessons
\* member is itself an object keyed by chapter title.
JSONstringify(allData) ==
  {<<u, [allData[u] EXCEPT !.lessons =
           {<<t, allData[u].lessons[t]>> : t \in DOMAIN allData[u].lessons}]>> :
     u \in DOMAIN allData}

JSONparse(text) ==
  [u \in {m[1] : m \in text} |->
     LET data == (CHOOSE m \in text : m[1] = u)[2]
     IN [data EXCEPT !.lessons =
           [t \in {m[1] : m \in data.lessons} |->
              (CHOOSE m \in data.lessons : m[1] = t)[2]]]]

\* getSavedLessons, on the stored entry
getSavedLessons(savedData) ==
  IF savedData # null THEN JSONparse(The(savedData)) ELSE EmptyObject

\* Fault: a new analysis starts the record afresh
saveVideoAnalysisAfresh(savedData, url, text, videoChapters) ==
  LET allData == getSavedLessons(savedData)
  IN Some(JSONstringify(Put(allData, url,
            [url |-> url, transcript |-> text, chapters |-> videoChapters,
             lessons |-> EmptyObject])))

\* saveVideoAnalysis: the entry it leaves in localStorage
saveVideoAnalysis(savedData, url, text, videoChapters) ==
  LET allData == getSavedLessons(savedData)
      existingData ==
        IF url \in DOMAIN allData THEN allData[url]
        ELSE [url |-> url, transcript |-> text, chapters |-> <<>>,
              lessons |-> EmptyObject]
  IN Some(JSONstringify(Put(allData, url,
            [existingData EXCEPT !.url = url, !.transcript = text,
                                 !.chapters = videoChapters])))

\* Fault: a lesson for an unknown URL creates its record
saveLessonForVideoCreates(savedData, url, chapter, generatedLesson) ==
  LET allData == getSavedLessons(savedData)
      existingData ==
        IF url \in DOMAIN allData THEN allData[url]
        ELSE [url |-> url, transcript |-> <<>>, chapters |-> <<>>,
              lessons |-> EmptyObject]
  IN Some(JSONstringify(Put(allData, url,
            [existingData EXCEPT
               !.lessons = Put(@, chapter.title, generatedLesson)])))

\* saveLessonForVideo: the entry it leaves in localStorage
saveLessonForVideo(savedData, url, chapter, generatedLesson) ==
  LET allData == getSavedLessons(savedData)
  IN IF url \in DOMAIN allData
       THEN Some(JSONstringify(Put(allData, url,
              [allData[url] EXCEPT
                 !.lessons = Put(@, chapter.title, generatedLesson)])))
       ELSE savedData

\* clearAllSavedData: localStorage.removeItem(STORAGE_KEY)
clearAllSavedData(savedData) == null

\* App as mounted on an empty store, after the effect of App.tsx 32-34
PageMounted ==
  /\ localStorage = null
  /\ lastOp = [op |-> "none", url |-> ""]
  /\ youtubeUrl = ""
  /\ appTranscript = <<>>
  /\ chapters = null
  /\ selectedChapter = null
  /\ lesson = null
  /\ isAnalyzing = FALSE
  /\ isGenerating = FALSE
  /\ appError = NoError
  /\ savedLessonsData = getSavedLessons(null)
  /\ analysis = null
  /\ generations = {}
  /\ analyzeCalls = 0
  /\ generateCalls = 0
  /\ chaptersUrl = null

\* ---------------------------------------------------------------- cleanup
\* Fault: the tracks are left running
StopTracksSkipped(st, ref) == st

\* mediaStreamRef.current?.getTracks().forEach(track => track.stop())
StopTracks(st, ref) ==
  IF ref = NULL THEN st ELSE [st EXCEPT ![ref] = "stopped"]

\* scriptProcessorRef.current?.disconnect()
Disconnect(pr, ref) ==
  IF ref = NULL THEN pr ELSE [pr EXCEPT ![ref].state = "disconnected"]

\* if (ctxRef.current && ctxRef.current.state !== 'closed') ctxRef.current.close()
CloseContext(cx, ref) ==
  IF ref # NULL /\ cx[ref] # "closed" THEN [cx EXCEPT ![ref] = "closed"] ELSE cx

\* sessionPromiseRef.current?.then(session => session.close()): on a resolved
\* promise close() is called at once; on a pending one when it resolves
RequestClose(ss, ref) ==
  IF ref = NULL THEN ss
  ELSE [ss EXCEPT ![ref] =
          [state |-> IF @.state = "open" THEN "closing" ELSE @.state,
           closeReq |-> TRUE]]

\* sourcesRef.current.forEach(source => source.stop())
StopSources(ch, set) ==
  [k \in DOMAIN ch |-> IF k \in set THEN [ch[k] EXCEPT !.state = "stopped"]
                       ELSE ch[k]]

\* Fault: cleanup() without sessionPromiseRef.current = null
CleanupKeepsSession(ss) ==
  /\ streams' = StopTracks(streams, mediaStreamRef)
  /\ processors' = Disconnect(processors, scriptProcessorRef)
  /\ inputCtx' = CloseContext(inputCtx, inputAudioContextRef)
  /\ outputCtx' = CloseContext(outputCtx, outputAudioContextRef)
  /\ sessions' = RequestClose(ss, sessionPromiseRef)
  /\ chunks' = StopSources(chunks, sourcesRef)
  /\ sourcesRef' = {}
  /\ mediaStreamRef' = NULL
  /\ scriptProcessorRef' = NULL
  /\ inputAudioContextRef' = NULL
  /\ outputAudioContextRef' = NULL
  /\ sessionPromiseRef' = sessionPromiseRef
  /\ nextStartTimeRef' = 0

\* cleanup(), run on the session table ss the calling handler leaves
Cleanup(ss) ==
  /\ streams' = StopTracks(streams, mediaStreamRef)
  /\ processors' = Disconnect(processors, scriptProcessorRef)
  /\ inputCtx' = CloseContext(inputCtx, inputAudioContextRef)
  /\ outputCtx' = CloseContext(outputCtx, outputAudioContextRef)
  /\ sessions' = RequestClose(ss, sessionPromiseRef)
  /\ chunks' = StopSources(chunks, sourcesRef)
  /\ sourcesRef' = {}
  /\ mediaStreamRef' = NULL
  /\ scriptProcessorRef' = NULL
  /\ inputAudioContextRef' = NULL
  /\ outputAudioContextRef' = NULL
  /\ sessionPromiseRef' = NULL
  /\ nextStartTimeRef' = 0

\* The steps of cleanup() that can fail
CleanupSteps == {"track.stop", "disconnect", "context.close", "session.close",
                 "source.stop"}

\* cleanup() when one step fails. track.stop(), disconnect() and
\* source.stop() are called directly in the body, which has no try: what they
\* throw leaves cleanup() and the statements after it do not run. A rejected
\* close() of the input context and a throw of session.close() inside the
\* then-callback go to .catch(console.error), and the body continues.
CleanupFailing(ss, step) ==
  CASE step = "track.stop" ->
         /\ mediaStreamRef # NULL
         /\ sessions' = ss
         /\ UNCHANGED <<streams, processors, inputCtx, outputCtx, chunks, refVars>>
    [] step = "disconnect" ->
         /\ scriptProcessorRef # NULL
         /\ streams' = StopTracks(streams, mediaStreamRef)
         /\ sessions' = ss
         /\ UNCHANGED <<processors, inputCtx, outputCtx, chunks, refVars>>
    [] step = "context.close" ->
         /\ inputAudioContextRef # NULL
         /\ inputCtx[inputAudioContextRef] # "closed"
         /\ Cleanup(ss)
    [] step = "session.close" ->
         /\ sessionPromiseRef # NULL
         /\ ss[sessionPromiseRef].state = "open"
         /\ Cleanup(ss)
    [] step = "source.stop" ->
         /\ sourcesRef # {}
         /\ streams' = StopTracks(streams, mediaStreamRef)
         /\ processors' = Disconnect(processors, scriptProcessorRef)
         /\ inputCtx' = CloseContext(inputCtx, inputAudioContextRef)
         /\ outputCtx' = CloseContext(outputCtx, outputAudioContextRef)
         /\ sessions' = RequestClose(ss, sessionPromiseRef)
         /\ UNCHANGED <<chunks, refVars>>

\* setStatus: an update of an unmounted component's state is dropped
SetStatus(s) == status' = IF mounted THEN s ELSE status
SetError(e) == error' = IF mounted THEN e ELSE error

\* ------------------------------------------------------------ init
\* The component as mounted, for n invocations of start and c audio chunks
Mounted(n, c) ==
  /\ status = "idle"
  /\ error = NoError
  /\ transcript = <<>>
  /\ mounted = TRUE
  /\ sessionPromiseRef = NULL
  /\ inputAudioContextRef = NULL
  /\ outputAudioContextRef = NULL
  /\ scriptProcessorRef = NULL
  /\ mediaStreamRef = NULL
  /\ sourcesRef = {}
  /\ nextStartTimeRef = 0
  /\ currentInputTranscriptionRef = <<>>
  /\ currentOutputTranscriptionRef = <<>>
  /\ starts = [i \in 1..n |-> "notInvoked"]
  /\ streams = [i \in 1..n |-> "none"]
  /\ inputCtx = [i \in 1..n |-> "none"]
  /\ outputCtx = [i \in 1..n |-> "none"]
  /\ currentTime = [i \in 1..n |-> 0]
  /\ processors = [i \in 1..n |-> NoProcessor]
  /\ sessions = [i \in 1..n |-> NoSession]
  /\ chunks = [k \in 1..c |-> NoChunk]
  /\ frameNo = 0
  /\ queued = <<>>
  /\ sent = <<>>
  /\ cleanupRuns = 0
  /\ tornDown = FALSE
  /\ lastTurn = "none"
  /\ PageMounted

Init == Mounted(MaxStarts, LifeChunks)

\* ------------------------------------------------------- start and stop
\* The start buttons are rendered in idle, stopped and error; the stop
\* button in active.
StartButtonShown == mounted /\ status \in {"idle", "stopped", "error"}
StopButtonShown == mounted /\ status = "active"

\* the body of handleStartChat up to its first await (getUserMedia)
StartChat ==
  /\ \E i \in Ids :
       /\ starts[i] = "notInvoked"
       /\ \A j \in Ids : j < i => starts[j] # "notInvoked"
       /\ starts' = [starts EXCEPT ![i] = "awaitMic"]
  /\ SetStatus("connecting")
  /\ SetError(NoError)
  /\ transcript' = <<>>
  /\ Cleanup(sessions)
  /\ cleanupRuns' = Min(cleanupRuns + 1, 2)
  /\ tornDown' = FALSE
  /\ UNCHANGED <<mounted, accVars, currentTime, sendVars>>
  /\ UNCHANGED <<lastTurn, lessonVars>>

\* handleStartChat, invoked by a start button
HandleStartChat == StartButtonShown /\ StartChat

\* ai.live.connect(...): the pending session promise of invocation i
Connect(i) ==
  /\ sessionPromiseRef' = i
  /\ sessions' = [sessions EXCEPT ![i] = [state |-> "connecting", closeReq |-> FALSE]]

\* getUserMedia resolves: the stream and both contexts are created; a
\* suspended output context is resumed (second await), a running one goes
\* straight to connect
MicGranted(i, ctxState) ==
  /\ starts[i] = "awaitMic"
  /\ mediaStreamRef' = i
  /\ streams' = [streams EXCEPT ![i] = "live"]
  /\ inputAudioContextRef' = i
  /\ inputCtx' = [inputCtx EXCEPT ![i] = "running"]
  /\ outputAudioContextRef' = i
  /\ outputCtx' = [outputCtx EXCEPT ![i] = ctxState]
  /\ IF ctxState = "suspended"
       THEN /\ starts' = [starts EXCEPT ![i] = "awaitResume"]
            /\ UNCHANGED <<sessionPromiseRef, sessions>>
       ELSE /\ starts' = [starts EXCEPT ![i] = "done"]
            /\ Connect(i)
  /\ cleanupRuns' = 0
  /\ UNCHANGED <<reactVars, scriptProcessorRef, sourcesRef, nextStartTimeRef,
                 accVars, currentTime, processors, chunks, sendVars, tornDown>>
  /\ UNCHANGED <<lastTurn, lessonVars>>

\* getUserMedia resolves and the stream is stored, then a constructor of
\* the audio graph throws (the input context's, or the output context's
\* after the input context was created): the catch block
GraphFailed(i, which) ==
  /\ starts[i] = "awaitMic"
  /\ starts' = [starts EXCEPT ![i] = "done"]
  /\ mediaStreamRef' = i
  /\ streams' = [streams EXCEPT ![i] = "live"]
  /\ IF which = "output"
       THEN /\ inputAudioContextRef' = i
            /\ inputCtx' = [inputCtx EXCEPT ![i] = "running"]
       ELSE UNCHANGED <<inputAudioContextRef, inputCtx>>
  /\ SetError(MicErrorMsg)
  /\ SetStatus("error")
  /\ cleanupRuns' = 0
  /\ UNCHANGED <<transcript, mounted, sessionPromiseRef, outputAudioContextRef,
                 scriptProcessorRef, sourcesRef, nextStartTimeRef, accVars,
                 outputCtx, processors, sessions, chunks, currentTime, sendVars,
                 tornDown, lastTurn, lessonVars>>

\* Fault: a catch block that only logs
MicDeniedLogged(i) ==
  /\ starts[i] = "awaitMic"
  /\ starts' = [starts EXCEPT ![i] = "done"]
  /\ cleanupRuns' = 0
  /\ UNCHANGED <<reactVars, refVars, accVars, worldVars,
                 currentTime, sendVars, tornDown, lastTurn, lessonVars>>

\* getUserMedia rejects: the catch block
MicDenied(i) ==
  /\ starts[i] = "awaitMic"
  /\ starts' = [starts EXCEPT ![i] = "done"]
  /\ SetError(MicErrorMsg)
  /\ SetStatus("error")
  /\ cleanupRuns' = 0
  /\ UNCHANGED <<transcript, mounted, refVars, accVars, worldVars,
                 currentTime, sendVars, tornDown>>
  /\ UNCHANGED <<lastTurn, lessonVars>>

\* context.resume() settles: it rejects on a context closed meanwhile (the
\* catch block), else the context runs and the handler connects
ResumeSettled(i) ==
  /\ starts[i] = "awaitResume"
  /\ starts' = [starts EXCEPT ![i] = "done"]
  /\ IF outputCtx[i] = "closed"
       THEN /\ SetError(MicErrorMsg)
            /\ SetStatus("error")
            /\ UNCHANGED <<outputCtx, sessionPromiseRef, sessions>>
       ELSE /\ outputCtx' = [outputCtx EXCEPT ![i] = "running"]
            /\ Connect(i)
            /\ UNCHANGED <<status, error>>
  /\ cleanupRuns' = 0
  /\ UNCHANGED <<transcript, mounted, inputAudioContextRef, outputAudioContextRef,
                 scriptProcessorRef, mediaStreamRef, sourcesRef, nextStartTimeRef,
                 accVars, streams, inputCtx, processors, chunks, currentTime,
                 sendVars, tornDown>>
  /\ UNCHANGED <<lastTurn, lessonVars>>

\* Fault: a stop that keeps status error, as onclose does
StopChatKeepsError ==
  /\ SetStatus(IF status = "error" THEN "error" ELSE "stopped")
  /\ Cleanup(sessions)
  /\ cleanupRuns' = Min(cleanupRuns + 1, 2)
  /\ tornDown' = TRUE
  /\ UNCHANGED <<error, transcript, mounted, accVars, starts, currentTime, sendVars>>
  /\ UNCHANGED <<lastTurn, lessonVars>>

\* the body of handleStopChat
StopChat ==
  /\ SetStatus("stopped")
  /\ Cleanup(sessions)
  /\ cleanupRuns' = Min(cleanupRuns + 1, 2)
  /\ tornDown' = TRUE
  /\ UNCHANGED <<error, transcript, mounted, accVars, starts, currentTime, sendVars>>
  /\ UNCHANGED <<lastTurn, lessonVars>>

\* handleStopChat, invoked by the stop button
HandleStopChat == StopButtonShown /\ StopChat

\* handleStopChat when a step of its cleanup() fails
StopChatFailing(step) ==
  /\ StopButtonShown
  /\ SetStatus("stopped")
  /\ CleanupFailing(sessions, step)
  /\ cleanupRuns' = 0
  /\ UNCHANGED <<error, transcript, mounted, accVars, starts, currentTime,
                 sendVars, tornDown, lastTurn, lessonVars>>

\* useEffect(() => () => cleanup(), [cleanup]): the component unmounts
Dispose ==
  /\ mounted
  /\ mounted' = FALSE
  /\ Cleanup(sessions)
  /\ cleanupRuns' = Min(cleanupRuns + 1, 2)
  /\ tornDown' = TRUE
  /\ UNCHANGED <<status, error, transcript, accVars, starts, currentTime, sendVars>>
  /\ UNCHANGED <<lastTurn, lessonVars>>

\* ------------------------------------------------------ transport events
\* Fault: only the newest pending frame is sent
FlushNewest(i) ==
  LET mine == SelectSeq(queued, LAMBDA e : e[2] = i)
  IN IF mine = <<>> THEN <<>> ELSE <<mine[Len(mine)]>>

\* The then-callbacks queued on session i's promise run, in order, when it
\* resolves: each queued frame is sent
Flush(i) == SelectSeq(queued, LAMBDA e : e[2] = i)
Keep(i) == SelectSeq(queued, LAMBDA e : e[2] # i)

\* onopen of session i, then its promise resolves: the pending sends run,
\* and the close cleanup() asked for while the promise was pending
OnOpen(i) ==
  /\ sessions[i].state = "connecting"
  /\ SetStatus("active")
  /\ IF inputAudioContextRef = NULL
       THEN \* inputAudioContextRef.current! is null: the callback throws
            UNCHANGED <<processors, scriptProcessorRef>>
       ELSE /\ processors' = [processors EXCEPT ![i] =
                 [state |-> "connected", ctx |-> inputAudioContextRef, stream |-> i]]
            /\ scriptProcessorRef' = i
  /\ sent' = sent \o Flush(i)
  /\ queued' = Keep(i)
  /\ sessions' = [sessions EXCEPT ![i].state =
                    IF sessions[i].closeReq THEN "closing" ELSE "open"]
  /\ cleanupRuns' = 0
  /\ UNCHANGED <<error, transcript, mounted, sessionPromiseRef, inputAudioContextRef,
                 outputAudioContextRef, mediaStreamRef, sourcesRef, nextStartTimeRef,
                 accVars, starts, streams, inputCtx, outputCtx, chunks, currentTime,
                 frameNo, tornDown>>
  /\ UNCHANGED <<lastTurn, lessonVars>>

\* An inbound message: the text of its input and output transcription (an
\* absent fragment appends nothing, like ""), turnComplete, and whether it
\* carries audio
Message(inp, out, tc, audio) ==
  [inp |-> inp, out |-> out, turnComplete |-> tc, audio |-> audio]

FreeChunk == {k \in DOMAIN chunks :
                chunks[k].state = "none"
                /\ \A j \in DOMAIN chunks : j < k => chunks[j].state # "none"}

\* Fault: every turnComplete flushes
ShouldFlushAlways(fullInput, fullOutput) == TRUE

\* Fault: the test without the trimming
ShouldFlushUntrimmed(fullInput, fullOutput) ==
  Truthy(fullInput) \/ Truthy(fullOutput)

\* Fault: && in place of ||
ShouldFlushBoth(fullInput, fullOutput) ==
  Truthy(Trim(fullInput)) /\ Truthy(Trim(fullOutput))

\* if (fullInput.trim() || fullOutput.trim())
ShouldFlush(fullInput, fullOutput) ==
  Truthy(Trim(fullInput)) \/ Truthy(Trim(fullOutput))

\* Fault: turnComplete is handled before the fragments of the same message
OnMessageFlagFirst(i, m) ==
  LET fullOutput == currentOutputTranscriptionRef
      fullInput == currentInputTranscriptionRef
      flush == m.turnComplete /\ ShouldFlush(fullInput, fullOutput)
      hasAudio == m.audio /\ outputAudioContextRef # NULL
  IN
  /\ sessions[i].state \in {"open", "closing"}
  /\ transcript' =
       IF flush /\ mounted
         THEN transcript \o <<[speaker |-> "user", text |-> fullInput],
                              [speaker |-> "model", text |-> fullOutput]>>
         ELSE transcript
  /\ currentInputTranscriptionRef' =
       IF m.turnComplete THEN m.inp ELSE fullInput \o m.inp
  /\ currentOutputTranscriptionRef' =
       IF m.turnComplete THEN m.out ELSE fullOutput \o m.out
  /\ IF hasAudio
       THEN /\ nextStartTimeRef' =
                 Max(nextStartTimeRef, currentTime[outputAudioContextRef])
            /\ \E k \in FreeChunk :
                 chunks' = [chunks EXCEPT ![k] =
                   [state |-> "decoding", sess |-> i, ctx |-> outputAudioContextRef,
                    t |-> currentTime[outputAudioContextRef],
                    start |-> 0, dur |-> 0, at |-> 0]]
       ELSE UNCHANGED <<nextStartTimeRef, chunks>>
  /\ lastTurn' = IF ~m.turnComplete THEN lastTurn
                 ELSE IF flush /\ (Truthy(m.inp) \/ Truthy(m.out)) THEN "flushedOwn"
                 ELSE IF flush THEN "flushed"
                 ELSE IF Truthy(fullInput) \/ Truthy(fullOutput) THEN "blank"
                 ELSE "empty"
  /\ UNCHANGED lessonVars
  /\ cleanupRuns' = 0
  /\ UNCHANGED <<status, error, mounted, sessionPromiseRef, inputAudioContextRef,
                 outputAudioContextRef, scriptProcessorRef, mediaStreamRef, sourcesRef,
                 starts, streams, inputCtx, outputCtx, processors, sessions,
                 currentTime, sendVars, tornDown>>

\* onmessage of session i up to its await of decodeAudioData; a message is
\* delivered while the session is open, or was already on its way when
\* close() was called
OnMessage(i, m) ==
  LET fullOutput == currentOutputTranscriptionRef \o m.out
      fullInput == currentInputTranscriptionRef \o m.inp
      flush == m.turnComplete /\ ShouldFlush(fullInput, fullOutput)
      hasAudio == m.audio /\ outputAudioContextRef # NULL
  IN
  /\ sessions[i].state \in {"open", "closing"}
  /\ transcript' =
       IF flush /\ mounted
         THEN transcript \o <<[speaker |-> "user", text |-> fullInput],
                              [speaker |-> "model", text |-> fullOutput]>>
         ELSE transcript
  /\ currentInputTranscriptionRef' = IF m.turnComplete THEN <<>> ELSE fullInput
  /\ currentOutputTranscriptionRef' = IF m.turnComplete THEN <<>> ELSE fullOutput
  /\ IF hasAudio
       THEN /\ nextStartTimeRef' =
                 Max(nextStartTimeRef, currentTime[outputAudioContextRef])
            /\ \E k \in FreeChunk :
                 chunks' = [chunks EXCEPT ![k] =
                   [state |-> "decoding", sess |-> i, ctx |-> outputAudioContextRef,
                    t |-> currentTime[outputAudioContextRef],
                    start |-> 0, dur |-> 0, at |-> 0]]
       ELSE UNCHANGED <<nextStartTimeRef, chunks>>
  /\ lastTurn' = IF ~m.turnComplete THEN lastTurn
                 ELSE IF flush /\ (Truthy(m.inp) \/ Truthy(m.out)) THEN "flushedOwn"
                 ELSE IF flush THEN "flushed"
                 ELSE IF Truthy(fullInput) \/ Truthy(fullOutput) THEN "blank"
                 ELSE "empty"
  /\ UNCHANGED lessonVars
  /\ cleanupRuns' = 0
  /\ UNCHANGED <<status, error, mounted, sessionPromiseRef, inputAudioContextRef,
                 outputAudioContextRef, scriptProcessorRef, mediaStreamRef, sourcesRef,
                 starts, streams, inputCtx, outputCtx, processors, sessions,
                 currentTime, sendVars, tornDown>>

\* decodeAudioData(...) returns a buffer of some duration, asynchronously
decodeAudioData == 1..MaxDur

\* onmessage resumes after the await: the source is created on the context
\* captured before the await, started at nextStartTimeRef and added to the set
DecodeDone(k, d) ==
  /\ chunks[k].state = "decoding"
  /\ chunks' = [chunks EXCEPT ![k] =
       [@ EXCEPT !.state = "playing", !.start = nextStartTimeRef, !.dur = d,
                 !.at = currentTime[chunks[k].ctx]]]
  /\ nextStartTimeRef' = nextStartTimeRef + d
  /\ sourcesRef' = sourcesRef \cup {k}
  /\ cleanupRuns' = 0
  /\ UNCHANGED <<reactVars, sessionPromiseRef, inputAudioContextRef,
                 outputAudioContextRef, scriptProcessorRef, mediaStreamRef, accVars,
                 starts, streams, inputCtx, outputCtx, processors, sessions,
                 currentTime, sendVars, tornDown>>
  /\ UNCHANGED <<lastTurn, lessonVars>>

\* the 'ended' listener of source k: its context has played it to the end
SourceEnded(k) ==
  /\ chunks[k].state = "playing"
  /\ outputCtx[chunks[k].ctx] = "running"
  /\ currentTime[chunks[k].ctx] >= chunks[k].start + chunks[k].dur
  /\ chunks' = [chunks EXCEPT ![k].state = "ended"]
  /\ sourcesRef' = sourcesRef \ {k}
  /\ cleanupRuns' = 0
  /\ UNCHANGED <<reactVars, sessionPromiseRef, inputAudioContextRef,
                 outputAudioContextRef, scriptProcessorRef, mediaStreamRef,
                 nextStartTimeRef, accVars, starts, streams, inputCtx, outputCtx,
                 processors, sessions, currentTime, sendVars, tornDown>>
  /\ UNCHANGED <<lastTurn, lessonVars>>

\* the clock of a running output context advances
Tick(c) ==
  /\ outputCtx[c] = "running"
  /\ currentTime[c] < MaxClock
  /\ currentTime' = [currentTime EXCEPT ![c] = @ + 1]
  /\ UNCHANGED <<reactVars, refVars, accVars, starts, worldVars, sendVars,
                 cleanupRuns, tornDown>>
  /\ UNCHANGED <<lastTurn, lessonVars>>

\* Fault: onerror that also empties the transcript
OnErrorClearsTranscript(i) ==
  /\ sessions[i].state \in {"connecting", "open", "closing"}
  /\ SetError(SessionErrorMsg)
  /\ SetStatus("error")
  /\ transcript' = <<>>
  /\ Cleanup([sessions EXCEPT ![i].state =
                IF @ = "connecting" THEN "failed" ELSE "errored"])
  /\ cleanupRuns' = Min(cleanupRuns + 1, 2)
  /\ tornDown' = TRUE
  /\ UNCHANGED <<mounted, accVars, starts, currentTime, sendVars, lastTurn, lessonVars>>

\* onerror of session i
OnError(i) ==
  /\ sessions[i].state \in {"connecting", "open", "closing"}
  /\ SetError(SessionErrorMsg)
  /\ SetStatus("error")
  /\ Cleanup([sessions EXCEPT ![i].state =
                IF @ = "connecting" THEN "failed" ELSE "errored"])
  /\ cleanupRuns' = Min(cleanupRuns + 1, 2)
  /\ tornDown' = TRUE
  /\ UNCHANGED <<transcript, mounted, accVars, starts, currentTime, sendVars>>
  /\ UNCHANGED <<lastTurn, lessonVars>>

\* The promise of connect() rejects. handleStartChat does not await it and
\* attaches no rejection handler, so no code of the component runs; the
\* then-callbacks chained on it never run
ConnectRejected(i) ==
  /\ sessions[i].state = "connecting"
  /\ sessions' = [sessions EXCEPT ![i].state = "rejected"]
  /\ cleanupRuns' = 0
  /\ UNCHANGED <<reactVars, refVars, accVars, starts, streams, inputCtx, outputCtx,
                 processors, chunks, currentTime, sendVars, tornDown, lastTurn, lessonVars>>

\* Fault: onclose that always sets stopped
OnCloseStopped(i) ==
  /\ sessions[i].state \in {"open", "closing", "errored", "failed"}
  /\ SetStatus("stopped")
  /\ Cleanup([sessions EXCEPT ![i].state = "closed"])
  /\ cleanupRuns' = Min(cleanupRuns + 1, 2)
  /\ tornDown' = TRUE
  /\ UNCHANGED <<error, transcript, mounted, accVars, starts, currentTime,
                 sendVars, lastTurn, lessonVars>>

\* onclose of session i
OnClose(i) ==
  /\ sessions[i].state \in {"open", "closing", "errored", "failed"}
  /\ SetStatus(IF status = "error" THEN "error" ELSE "stopped")
  /\ Cleanup([sessions EXCEPT ![i].state = "closed"])
  /\ cleanupRuns' = Min(cleanupRuns + 1, 2)
  /\ tornDown' = TRUE
  /\ UNCHANGED <<error, transcript, mounted, accVars, starts, currentTime, sendVars>>
  /\ UNCHANGED <<lastTurn, lessonVars>>

\* onaudioprocess of the processor onopen(p) created; an event already
\* queued is still delivered after disconnect()
OnAudioProcess(p) ==
  /\ processors[p].state # "none"
  /\ frameNo' = frameNo + 1
  /\ IF sessionPromiseRef = NULL
       THEN UNCHANGED <<queued, sent>>
       ELSE IF sessions[sessionPromiseRef].state \in {"connecting", "failed", "rejected"}
              THEN /\ queued' = Append(queued, <<frameNo + 1, sessionPromiseRef>>)
                   /\ UNCHANGED sent
              ELSE /\ sent' = Append(sent, <<frameNo + 1, sessionPromiseRef>>)
                   /\ UNCHANGED queued
  /\ cleanupRuns' = 0
  /\ UNCHANGED <<reactVars, refVars, accVars, starts, worldVars, currentTime, tornDown>>
  /\ UNCHANGED <<lastTurn, lessonVars>>

\* ---------------------------------------------------------- specifications
\* The bounds of a run: message m is delivered only while the accumulators,
\* the transcript and the chunk table have room for it
Fits(m) ==
  /\ Len(currentInputTranscriptionRef) + Len(m.inp)
       + Len(currentOutputTranscriptionRef) + Len(m.out) <= MaxText
  /\ m.turnComplete => Len(transcript) < 2 * MaxTurns
  /\ (m.audio /\ outputAudioContextRef # NULL) => FreeChunk # {}

\* What the lifecycle runs receive
LifeMsgs == {Message(<<"a">>, <<>>, FALSE, FALSE),
             Message(<<>>, <<>>, TRUE, FALSE),
             Message(<<>>, <<>>, FALSE, TRUE)}

Next ==
  \/ HandleStartChat
  \/ \E i \in Ids, c \in {"running", "suspended"} : MicGranted(i, c)
  \/ \E i \in Ids : MicDenied(i)
  \/ \E i \in Ids, w \in {"input", "output"} : GraphFailed(i, w)
  \/ \E i \in Ids : ResumeSettled(i)
  \/ \E i \in Ids : ConnectRejected(i)
  \/ HandleStopChat
  \/ Dispose
  \/ \E i \in Ids : OnOpen(i)
  \/ \E i \in Ids, m \in LifeMsgs : Fits(m) /\ OnMessage(i, m)
  \/ \E k \in DOMAIN chunks, d \in decodeAudioData : DecodeDone(k, d)
  \/ \E i \in Ids : OnError(i)
  \/ \E i \in Ids : OnClose(i)
  \/ \E p \in Ids : frameNo < MaxFrames /\ OnAudioProcess(p)

Spec == Init /\ [][Next]_vars

\* Restarts: three invocations of start and the transport events, with no
\* inbound messages and no capture
RestartInit == Mounted(RestartStarts, LifeChunks)

RestartNext ==
  \/ HandleStartChat
  \/ \E i \in Ids, c \in {"running", "suspended"} : MicGranted(i, c)
  \/ \E i \in Ids : MicDenied(i)
  \/ \E i \in Ids : ResumeSettled(i)
  \/ HandleStopChat
  \/ \E i \in Ids : OnOpen(i)
  \/ \E i \in Ids : OnError(i)
  \/ \E i \in Ids : OnClose(i)

SpecRestart == RestartInit /\ [][RestartNext]_vars

\* The component with its first session active: after handleStartChat,
\* getUserMedia, connect and onopen
Active(c) ==
  /\ status = "active"
  /\ error = NoError
  /\ transcript = <<>>
  /\ mounted = TRUE
  /\ sessionPromiseRef = 1
  /\ inputAudioContextRef = 1
  /\ outputAudioContextRef = 1
  /\ scriptProcessorRef = 1
  /\ mediaStreamRef = 1
  /\ sourcesRef = {}
  /\ nextStartTimeRef = 0
  /\ currentInputTranscriptionRef = <<>>
  /\ currentOutputTranscriptionRef = <<>>
  /\ starts = [i \in 1..MaxStarts |-> IF i = 1 THEN "done" ELSE "notInvoked"]
  /\ streams = [i \in 1..MaxStarts |-> IF i = 1 THEN "live" ELSE "none"]
  /\ inputCtx = [i \in 1..MaxStarts |-> IF i = 1 THEN "running" ELSE "none"]
  /\ outputCtx = [i \in 1..MaxStarts |-> IF i = 1 THEN "running" ELSE "none"]
  /\ currentTime = [i \in 1..MaxStarts |-> 0]
  /\ processors = [i \in 1..MaxStarts |->
       IF i = 1 THEN [state |-> "connected", ctx |-> 1, stream |-> 1] ELSE NoProcessor]
  /\ sessions = [i \in 1..MaxStarts |->
       IF i = 1 THEN [state |-> "open", closeReq |-> FALSE] ELSE NoSession]
  /\ chunks = [k \in 1..c |-> NoChunk]
  /\ frameNo = 0
  /\ queued = <<>>
  /\ sent = <<>>
  /\ cleanupRuns = 0
  /\ tornDown = FALSE
  /\ lastTurn = "none"
  /\ PageMounted

\* Overlapping starts with capture: a capture node fires only while it is
\* connected and its context runs
LiveCapture(p) ==
  /\ processors[p].state = "connected"
  /\ inputCtx[processors[p].ctx] = "running"

OverlapNext ==
  \/ RestartNext
  \/ \E p \in Ids : frameNo < MaxFrames /\ LiveCapture(p) /\ OnAudioProcess(p)

SpecOverlap == RestartInit /\ [][OverlapNext]_vars

\* Capture: the lifecycle with several capture frames and no inbound messages
CaptureNext ==
  \/ HandleStartChat
  \/ \E i \in Ids, c \in {"running", "suspended"} : MicGranted(i, c)
  \/ \E i \in Ids : MicDenied(i)
  \/ \E i \in Ids : ResumeSettled(i)
  \/ HandleStopChat
  \/ \E i \in Ids : OnOpen(i)
  \/ \E i \in Ids : OnError(i)
  \/ \E i \in Ids : OnClose(i)
  \/ \E p \in Ids : frameNo < CaptureFrames /\ OnAudioProcess(p)

SpecCapture == Init /\ [][CaptureNext]_vars

AudioMsg == Message(<<>>, <<>>, FALSE, TRUE)

\* The lifecycle with audio messages, without stop
AudioLifeNext ==
  \/ HandleStartChat
  \/ \E i \in Ids, c \in {"running", "suspended"} : MicGranted(i, c)
  \/ \E i \in Ids : MicDenied(i)
  \/ \E i \in Ids, w \in {"input", "output"} : GraphFailed(i, w)
  \/ \E i \in Ids : ResumeSettled(i)
  \/ \E i \in Ids : ConnectRejected(i)
  \/ \E i \in Ids : OnOpen(i)
  \/ \E i \in Ids : Fits(AudioMsg) /\ OnMessage(i, AudioMsg)
  \/ \E k \in DOMAIN chunks, d \in decodeAudioData : DecodeDone(k, d)
  \/ \E i \in Ids : OnError(i)
  \/ \E i \in Ids : OnClose(i)

\* Stop in any status: handleStopChat is also invoked where its button is not
\* rendered
StopNext ==
  \/ mounted /\ StopChat
  \/ AudioLifeNext

SpecStop == Init /\ [][StopNext]_vars

\* Failing cleanup: the stop button's handler, with a step of cleanup()
\* that may fail
FaultNext ==
  \/ HandleStopChat
  \/ \E step \in CleanupSteps : StopChatFailing(step)
  \/ AudioLifeNext

SpecFault == Init /\ [][FaultNext]_vars

\* Playback: one active session receives audio while its output clock runs

PlayNext ==
  \/ \E i \in Ids : Fits(AudioMsg) /\ OnMessage(i, AudioMsg)
  \/ \E k \in DOMAIN chunks, d \in decodeAudioData : DecodeDone(k, d)
  \/ \E c \in Ids : Tick(c)
  \/ \E k \in DOMAIN chunks : SourceEnded(k)

SpecPlay == Active(PlayChunks) /\ [][PlayNext]_vars

\* Playback with teardown: the active session may be stopped while it
\* receives and plays audio
TeardownNext ==
  \/ HandleStopChat
  \/ PlayNext

SpecTeardown == Active(PlayChunks) /\ [][TeardownNext]_vars

\* Turns: one active session receives transcript fragments and turnComplete
Fragments == {<<>>, <<" ">>, <<"a">>}
TurnMsgs == {Message(i, o, tc, FALSE) : i \in Fragments, o \in Fragments, tc \in BOOLEAN}

TurnNext == \E i \in Ids, m \in TurnMsgs : Fits(m) /\ OnMessage(i, m)

SpecTurn == Active(LifeChunks) /\ [][TurnNext]_vars

\* ------------------------------------------------------------------ claims
\* The handles cleanup() clears
AllClear ==
  /\ mediaStreamRef = NULL
  /\ scriptProcessorRef = NULL
  /\ inputAudioContextRef = NULL
  /\ outputAudioContextRef = NULL
  /\ sessionPromiseRef = NULL
  /\ sourcesRef = {}
  /\ nextStartTimeRef = 0

\* Everything cleanup() reads or writes
ResourceView ==
  <<refVars, streams, inputCtx, outputCtx, processors, chunks,
    [i \in Ids |-> sessions[i].closeReq]>>

\* A session that is connecting or open and that nobody asked to close
LiveSession(i) == sessions[i].state \in {"connecting", "open"} /\ ~sessions[i].closeReq

\* C1: every run of cleanup() leaves the five handles null, the playback set
\* empty and nextStartTimeRef 0; a run that directly follows another run of
\* cleanup() changes nothing cleanup() acts on.
C1_CleanupIdempotent ==
  [][cleanupRuns' >= 1 =>
       /\ AllClear'
       /\ cleanupRuns >= 1 => ResourceView' = ResourceView]_vars

\* cleanup() has run twice in succession on a session that held a microphone
C1_Witness == cleanupRuns = 2 /\ \E i \in Ids : streams[i] = "stopped"

\* C2: at no time are two microphone streams live or two transport sessions
\* live, however the invocations of start interleave.
C2_SingleActiveSession ==
  /\ Cardinality({i \in Ids : streams[i] = "live"}) <= 1
  /\ Cardinality({i \in Ids : LiveSession(i)}) <= 1

\* C3: a transport error while active gives status error, an error message,
\* and releases everything the handles held (stream stopped, both contexts
\* closed, session close requested, playback sources stopped, handles null);
\* a transport close in status error leaves status error.
C3_ErrorTransition ==
  [][\A i \in Ids :
       /\ (mounted /\ status = "active" /\ OnError(i)) =>
            /\ status' = "error"
            /\ error' # NoError
            /\ AllClear'
            /\ mediaStreamRef # NULL => streams'[mediaStreamRef] = "stopped"
            /\ inputAudioContextRef # NULL => inputCtx'[inputAudioContextRef] = "closed"
            /\ outputAudioContextRef # NULL => outputCtx'[outputAudioContextRef] = "closed"
            /\ sessionPromiseRef # NULL =>
                 /\ sessions'[sessionPromiseRef].closeReq
                 /\ sessions'[sessionPromiseRef].state # "open"
            /\ \A k \in sourcesRef : chunks'[k].state = "stopped"
       /\ (mounted /\ status = "error" /\ OnClose(i)) => status' = "error"]_vars

\* the error of an open session has just torn down the session that played audio
C3_Witness ==
  /\ status = "error" /\ error = SessionErrorMsg /\ cleanupRuns = 1
  /\ \E i \in Ids : /\ sessions[i].state = "errored" /\ sessions[i].closeReq
                    /\ streams[i] = "stopped" /\ outputCtx[i] = "closed"
  /\ \E k \in DOMAIN chunks : chunks[k].state = "stopped"

\* C4: while torn down (cleanup() ran by stop, error, close or disposal and
\* start has not been invoked since), a capture callback issues no send and
\* an inbound message changes neither the transcript nor the accumulators.
C4_CallbacksAfterCleanupNoOp ==
  [][tornDown =>
       /\ \A p \in Ids : OnAudioProcess(p) => sent' = sent /\ queued' = queued
       /\ \A i \in Ids, m \in LifeMsgs :
            OnMessage(i, m) => transcript' = transcript /\ accVars' = accVars]_vars

\* C5: while torn down the playback set is empty and nextStartTimeRef is 0.
C5_NoPlaybackAfterCleanup ==
  tornDown => sourcesRef = {} /\ nextStartTimeRef = 0

\* C6: status stopped or error changes only by start (to connecting).
C6_TerminalStates ==
  [][mounted /\ status \in {"stopped", "error"} =>
       status' \in {status, "connecting"}]_vars

\* C7: once the component is unmounted nothing is held: no live stream, no
\* open context, no connected capture node, no live session, no playing source.
C7_NothingHeldAfterDisposal ==
  ~mounted =>
    /\ \A i \in Ids :
         /\ streams[i] # "live"
         /\ inputCtx[i] \notin {"running"}
         /\ outputCtx[i] \notin {"running", "suspended"}
         /\ processors[i].state # "connected"
         /\ ~LiveSession(i)
    /\ \A k \in DOMAIN chunks : chunks[k].state # "playing"

\* Chunk k has been given a start time
Scheduled(k) == chunks[k].state \in {"playing", "ended", "stopped"}

\* C8: in delivery order, the first chunk starts at max(0, t1), each later
\* chunk at max(start + duration of the one before, its own t), and once
\* every delivered chunk is scheduled nextStartTimeRef is the end of the last.
C8_GaplessLaw ==
  /\ \A k \in DOMAIN chunks :
       Scheduled(k) =>
         IF k = 1 THEN chunks[k].start = Max(0, chunks[k].t)
         ELSE Scheduled(k - 1) =>
                chunks[k].start =
                  Max(chunks[k - 1].start + chunks[k - 1].dur, chunks[k].t)
  /\ \A n \in DOMAIN chunks :
       (/\ \A k \in DOMAIN chunks : IF k <= n THEN Scheduled(k)
                                    ELSE chunks[k].state = "none")
         => nextStartTimeRef = chunks[n].start + chunks[n].dur

\* C9: a source is never started at a time before the clock of its context.
C9_NoPastStart ==
  \A k \in DOMAIN chunks : Scheduled(k) => chunks[k].start >= chunks[k].at

\* Text with a character that is not whitespace
NonBlank(s) == \E j \in 1..Len(s) : s[j] # " "

\* C10: a turnComplete with a non-blank accumulator appends exactly
\* {user, input accumulator} then {model, output accumulator} and empties both.
C10_TurnFlush ==
  [][\A i \in Ids, m \in TurnMsgs :
       LET fullInput == currentInputTranscriptionRef \o m.inp
           fullOutput == currentOutputTranscriptionRef \o m.out
       IN (OnMessage(i, m) /\ m.turnComplete
             /\ (NonBlank(fullInput) \/ NonBlank(fullOutput))) =>
            /\ transcript' = transcript \o
                 <<[speaker |-> "user", text |-> fullInput],
                   [speaker |-> "model", text |-> fullOutput]>>
            /\ currentInputTranscriptionRef' = <<>>
            /\ currentOutputTranscriptionRef' = <<>>]_vars

\* a turn was flushed whose model side is empty
C10_Witness ==
  /\ Len(transcript) = 2
  /\ transcript[1] = [speaker |-> "user", text |-> <<"a">>]
  /\ transcript[2] = [speaker |-> "model", text |-> <<>>]
  /\ currentInputTranscriptionRef = <<>>
  /\ currentOutputTranscriptionRef = <<>>

\* C11: a turnComplete whose accumulators are both empty after trimming
\* (whitespace-only included) leaves the transcript as it was and empties
\* both accumulators.
C11_EmptyTurn ==
  [][\A i \in Ids, m \in TurnMsgs :
       LET fullInput == currentInputTranscriptionRef \o m.inp
           fullOutput == currentOutputTranscriptionRef \o m.out
       IN (OnMessage(i, m) /\ m.turnComplete
             /\ ~NonBlank(fullInput) /\ ~NonBlank(fullOutput)) =>
            /\ transcript' = transcript
            /\ currentInputTranscriptionRef' = <<>>
            /\ currentOutputTranscriptionRef' = <<>>]_vars

\* a whitespace-only turn was handled: nothing appended, accumulators empty
C11_Witness ==
  /\ lastTurn = "blank"
  /\ transcript = <<>>
  /\ currentInputTranscriptionRef = <<>>
  /\ currentOutputTranscriptionRef = <<>>

\* The frames handed to session i, in the order of the calls
SentTo(i) == SelectSeq(sent, LAMBDA e : e[2] = i)
Pending == {queued[j] : j \in 1..Len(queued)}
Delivered == {sent[j] : j \in 1..Len(sent)}

CallbackNext ==
  \/ \E i \in Ids, c \in {"running", "suspended"} : MicGranted(i, c)
  \/ \E i \in Ids : MicDenied(i)
  \/ \E i \in Ids, w \in {"input", "output"} : GraphFailed(i, w)
  \/ \E i \in Ids : ResumeSettled(i)
  \/ \E i \in Ids : ConnectRejected(i)
  \/ \E i \in Ids : OnOpen(i)
  \/ \E i \in Ids : OnError(i)
  \/ \E i \in Ids : OnClose(i)
  \/ \E k \in DOMAIN chunks, d \in decodeAudioData : DecodeDone(k, d)

\* C13: a failed attempt to open the transport does not leave the status at
\* connecting: once the promise of the current start has rejected and no
\* callback is pending, the status is error, with a message and everything
\* released.
C13_OpenFailureResolved ==
  \A i \in Ids :
    (sessions[i].state = "rejected" /\ sessionPromiseRef = i /\ mounted
       /\ ~ENABLED CallbackNext) =>
      (status = "error" /\ error # NoError /\ AllClear)

\* C14: when a start fails after the microphone stream was obtained (a
\* constructor of the audio graph throws, or resume rejects) the status is
\* error with a message, what that start acquired is released and every
\* handle is cleared.
C14_PartialStartFailure ==
  [][\A i \in Ids :
       (mounted /\ \/ \E w \in {"input", "output"} : GraphFailed(i, w)
                   \/ (ResumeSettled(i) /\ outputCtx[i] = "closed")) =>
         /\ status' = "error"
         /\ error' # NoError
         /\ streams'[i] # "live"
         /\ inputCtx'[i] # "running"
         /\ outputCtx'[i] \notin {"running", "suspended"}
         /\ AllClear']_vars

\* Start i ended in the catch block without a microphone stream
Denied(i) == starts[i] = "done" /\ streams[i] = "none"

\* C15: when getUserMedia rejects, the start ends with status error and a
\* non-empty message; no transport session ever exists for that start and
\* the status only becomes active by the onopen of a start that got its
\* microphone.
C15_MicDenied ==
  [][/\ \A i \in Ids : (MicDenied(i) /\ mounted) =>
          /\ status' = "error"
          /\ error' # NoError
          /\ Denied(i)'
     /\ \A i \in Ids : Denied(i) =>
          /\ Denied(i)'
          /\ sessions[i].state = "none"
          /\ sessions'[i].state = "none"
          /\ ~OnOpen(i)
     /\ (status' = "active" /\ status # "active") =>
          \E j \in Ids : OnOpen(j) /\ ~Denied(j)]_vars

\* the microphone was denied to the first start: error with the message,
\* no session
C15_Witness ==
  /\ Denied(1)
  /\ status = "error"
  /\ error = MicErrorMsg
  /\ sessions[1].state = "none"
  /\ starts[2] = "notInvoked"

\* C16: a transport close leaves status error when it was error and sets
\* stopped otherwise, and releases everything the handles held; a close that
\* follows an error does not replace error by stopped.
C16_CloseTransition ==
  [][\A i \in Ids : (mounted /\ OnClose(i)) =>
       /\ status' = (IF status = "error" THEN "error" ELSE "stopped")
       /\ error' = error
       /\ AllClear'
       /\ mediaStreamRef # NULL => streams'[mediaStreamRef] = "stopped"
       /\ inputAudioContextRef # NULL => inputCtx'[inputAudioContextRef] = "closed"
       /\ outputAudioContextRef # NULL => outputCtx'[outputAudioContextRef] = "closed"
       /\ scriptProcessorRef # NULL =>
            processors'[scriptProcessorRef].state = "disconnected"
       /\ sessionPromiseRef # NULL => sessions'[sessionPromiseRef].closeReq
       /\ \A k \in sourcesRef : chunks'[k].state = "stopped"]_vars

\* the only session errored and then closed: the status is still error
C16_Witness ==
  /\ sessions[1].state = "closed"
  /\ status = "error"
  /\ error = SessionErrorMsg
  /\ starts[2] = "notInvoked"
  /\ AllClear

\* C17: handleStopChat invoked in any status sets status stopped and releases
\* everything the handles held: the handles are null, the playback set is
\* empty and nextStartTimeRef is 0, with nothing thrown on absent resources.
C17_StopAnyStatus ==
  [][(mounted /\ StopChat) =>
       /\ status' = "stopped"
       /\ AllClear'
       /\ mediaStreamRef # NULL => streams'[mediaStreamRef] = "stopped"
       /\ inputAudioContextRef # NULL => inputCtx'[inputAudioContextRef] = "closed"
       /\ outputAudioContextRef # NULL => outputCtx'[outputAudioContextRef] = "closed"
       /\ scriptProcessorRef # NULL =>
            processors'[scriptProcessorRef].state = "disconnected"
       /\ sessionPromiseRef # NULL => sessions'[sessionPromiseRef].closeReq
       /\ \A k \in sourcesRef : chunks'[k].state = "stopped"]_vars

\* stop was invoked while the first start awaited the microphone, where
\* nothing is held yet
C17_Witness ==
  /\ status = "stopped"
  /\ starts[1] = "awaitMic"
  /\ starts[2] = "notInvoked"
  /\ AllClear

\* C18: chunks are scheduled in delivery order: of two scheduled chunks the one
\* delivered first does not start after the other, however the decodes
\* interleave.
C18_DeliveryOrder ==
  \A j, k \in DOMAIN chunks :
    (j < k /\ Scheduled(j) /\ Scheduled(k)) => chunks[j].start <= chunks[k].start

\* C19: when one step of cleanup() fails the other steps still take effect
\* and every handle ends null, the playback set empty and nextStartTimeRef 0.
C19_CleanupTolerant ==
  [][\A step \in CleanupSteps : StopChatFailing(step) =>
       /\ AllClear'
       /\ (step # "track.stop" /\ mediaStreamRef # NULL) =>
            streams'[mediaStreamRef] = "stopped"
       /\ (step # "disconnect" /\ scriptProcessorRef # NULL) =>
            processors'[scriptProcessorRef].state = "disconnected"
       /\ outputAudioContextRef # NULL => outputCtx'[outputAudioContextRef] = "closed"
       /\ (step # "session.close" /\ sessionPromiseRef # NULL) =>
            sessions'[sessionPromiseRef].closeReq
       /\ step # "source.stop" => \A k \in sourcesRef : chunks'[k].state = "stopped"
     ]_vars

\* C20: in every reachable state a non-null error message implies status
\* error.
C20_ErrorOnlyInError == error # NoError => status = "error"

\* s is an initial part of t
IsPrefix(s, t) == Len(s) <= Len(t) /\ \A j \in 1..Len(s) : s[j] = t[j]

\* C21: a transport error, a transport close and stop leave the transcript as
\* it is, and between two invocations of start the transcript only grows.
C21_TranscriptRetained ==
  [][/\ \A i \in Ids : (OnError(i) \/ OnClose(i)) => transcript' = transcript
     /\ HandleStopChat => transcript' = transcript
     /\ ~HandleStartChat => IsPrefix(transcript, transcript')]_vars

\* the session failed after a turn was flushed: the pair is still shown
C21_Witness ==
  /\ Len(transcript) = 2
  /\ status = "error"
  /\ sessions[1].state = "errored"
  /\ starts[2] = "notInvoked"

\* C22: a send reaches a session only when its handle has resolved, and no
\* send is issued on a session whose close cleanup() has already requested.
C22_SendOnlyWhenReady ==
  [][\A e \in Delivered' \ Delivered :
       /\ sessions'[e[2]].state \in {"open", "closing"}
       /\ ~sessions[e[2]].closeReq]_vars

\* A start later than i has begun
Superseded(i) == \E j \in Ids : j > i /\ starts[j] # "notInvoked"

\* C23: a transport error or close of a session that a later start has
\* superseded changes neither the status nor what the newer session holds:
\* its stream, its contexts, its capture node, its session and its sources.
C23_OldEventsIsolated ==
  [][\A i \in Ids : ((OnError(i) \/ OnClose(i)) /\ Superseded(i)) =>
       /\ status' = status
       /\ refVars' = refVars
       /\ \A j \in Ids : j > i =>
            /\ streams'[j] = streams[j]
            /\ inputCtx'[j] = inputCtx[j]
            /\ outputCtx'[j] = outputCtx[j]
            /\ processors'[j] = processors[j]
            /\ sessions'[j] = sessions[j]]_vars

\* The five handles of a running session are set
HoldsAll ==
  /\ mediaStreamRef # NULL
  /\ inputAudioContextRef # NULL
  /\ outputAudioContextRef # NULL
  /\ sessionPromiseRef # NULL
  /\ scriptProcessorRef # NULL

\* C24: while the status is active the stream, both contexts, the session and
\* the capture node are held, and the status becomes active only from
\* connecting, by the onopen of the session sessionPromiseRef holds.
C24_ActiveHoldsResources ==
  [][(mounted' /\ status' = "active") =>
       /\ HoldsAll'
       /\ status # "active" =>
            /\ status = "connecting"
            /\ \E i \in Ids : OnOpen(i) /\ sessionPromiseRef = i]_vars

\* C25: when a start sets the status to connecting both transcription
\* accumulators are empty, so that text a previous session left unflushed
\* cannot enter an entry of the new session.
C25_NoAccumulatorCarryOver ==
  [][HandleStartChat =>
       /\ currentInputTranscriptionRef' = <<>>
       /\ currentOutputTranscriptionRef' = <<>>]_vars

\* C26: the transcript is a sequence of pairs: its length is even, each odd
\* entry (counting from 1) is the user's and is followed by the model's, and
\* in each pair at least one text has a character that is not whitespace.
C26_TranscriptPairs ==
  /\ Len(transcript) % 2 = 0
  /\ \A j \in 1..Len(transcript) :
       j % 2 = 1 =>
         /\ transcript[j].speaker = "user"
         /\ transcript[j + 1].speaker = "model"
         /\ NonBlank(transcript[j].text) \/ NonBlank(transcript[j + 1].text)

\* a pair whose user side is whitespace only was appended with its model side
C26_Witness ==
  /\ Len(transcript) = 2
  /\ transcript[1] = [speaker |-> "user", text |-> <<" ">>]
  /\ transcript[2] = [speaker |-> "model", text |-> <<"a">>]

\* C27: the playback set holds exactly the sources scheduled on the current
\* session's output context whose playback has not ended and that were not
\* stopped.
C27_PlaybackSet ==
  sourcesRef = {k \in DOMAIN chunks :
                  chunks[k].state = "playing" /\ outputAudioContextRef # NULL
                    /\ chunks[k].ctx = outputAudioContextRef}

\* C28: the intervals [start, start + duration) of two sources scheduled in
\* the same session are disjoint, in whatever order the decodes resolve.
C28_NoOverlap ==
  \A j, k \in DOMAIN chunks :
    (j # k /\ Scheduled(j) /\ Scheduled(k) /\ chunks[j].sess = chunks[k].sess) =>
      \/ chunks[j].start + chunks[j].dur <= chunks[k].start
      \/ chunks[k].start + chunks[k].dur <= chunks[j].start

\* C29: when one message carries a fragment together with turnComplete the
\* fragment is applied first: the flushed pair ends with the fragments of
\* that message and both accumulators are empty afterwards.
C29_FragmentsBeforeFlag ==
  [][\A i \in Ids, m \in TurnMsgs :
       (OnMessage(i, m) /\ m.turnComplete
          /\ (NonBlank(m.inp) \/ NonBlank(m.out))) =>
         /\ Len(transcript') = Len(transcript) + 2
         /\ transcript'[Len(transcript') - 1].text =
              currentInputTranscriptionRef \o m.inp
         /\ transcript'[Len(transcript')].text =
              currentOutputTranscriptionRef \o m.out
         /\ currentInputTranscriptionRef' = <<>>
         /\ currentOutputTranscriptionRef' = <<>>]_vars

\* one message brought the second letter of the user's text and turnComplete
C29_Witness ==
  /\ Len(transcript) = 2
  /\ transcript[1] = [speaker |-> "user", text |-> <<"a", "a">>]
  /\ transcript[2] = [speaker |-> "model", text |-> <<>>]
  /\ lastTurn = "flushedOwn"

\* C30: every invocation of handleStartChat sets status connecting, clears
\* the error and empties the transcript before it has a stream or a session,
\* and once a start has begun no message of an earlier session adds an entry
\* to the transcript.
C30_StartResets ==
  [][/\ (mounted /\ StartChat) =>
          /\ status' = "connecting"
          /\ error' = NoError
          /\ transcript' = <<>>
          /\ \A i \in Ids : starts[i] = "notInvoked" =>
               streams'[i] = "none" /\ sessions'[i].state = "none"
     /\ \A i \in Ids, m \in LifeMsgs :
          (OnMessage(i, m) /\ Superseded(i)) => transcript' = transcript]_vars


\* ------------------------------------------------------- the lesson store
\* What the operations are applied to: two video URLs, transcripts of one
\* character, chapter lists over two titles, and the lesson the service
\* generates for a URL and a chapter.
VideoUrls == {"youtu.be/a", "youtu.be/b"}
Transcripts == {<<" ">>, <<"a">>}
Titles == {"A", "B"}
Chapter(t) == [title |-> t]
ChapterLists == {<<Chapter("A")>>, <<Chapter("B")>>, <<Chapter("A"), Chapter("B")>>}
LessonFor(url, chapter) == [title |-> <<url, chapter.title>>]

\* write-analysis
WriteAnalysis(url, text, videoChapters) ==
  /\ localStorage' = saveVideoAnalysis(localStorage, url, text, videoChapters)
  /\ lastOp' = [op |-> IF url \in DOMAIN getSavedLessons(localStorage)
                         THEN "reanalysis" ELSE "analysis",
                url |-> url]
  /\ UNCHANGED <<chatVars, pageVars, callVars>>

\* write-lesson
WriteLesson(url, chapter, generatedLesson) ==
  /\ localStorage' = saveLessonForVideo(localStorage, url, chapter, generatedLesson)
  /\ lastOp' = [op |-> IF url \in DOMAIN getSavedLessons(localStorage)
                         THEN "lesson" ELSE "noRecord",
                url |-> url]
  /\ UNCHANGED <<chatVars, pageVars, callVars>>

\* clear-all
ClearAll ==
  /\ localStorage' = clearAllSavedData(localStorage)
  /\ lastOp' = [op |-> "clear", url |-> ""]
  /\ UNCHANGED <<chatVars, pageVars, callVars>>

StoreNext ==
  \/ \E url \in VideoUrls, text \in Transcripts, videoChapters \in ChapterLists :
       WriteAnalysis(url, text, videoChapters)
  \/ \E url \in VideoUrls, t \in Titles, from \in VideoUrls :
       WriteLesson(url, Chapter(t), LessonFor(from, Chapter(t)))
  \/ ClearAll

SpecStore == Init /\ [][StoreNext]_vars

\* The store as an object, before and after a step
Records == getSavedLessons(localStorage)
RecordsAfter == getSavedLessons(localStorage')

\* C33: write-analysis for a URL leaves a record of that URL with the given
\* transcript and chapters and with exactly the lessons the URL had before,
\* and leaves the record of every other URL as it was.
C33_AnalysisFrame ==
  [][\A url \in VideoUrls, text \in Transcripts, videoChapters \in ChapterLists :
       WriteAnalysis(url, text, videoChapters) =>
         /\ DOMAIN RecordsAfter = DOMAIN Records \cup {url}
         /\ RecordsAfter[url].url = url
         /\ RecordsAfter[url].transcript = text
         /\ RecordsAfter[url].chapters = videoChapters
         /\ RecordsAfter[url].lessons =
              IF url \in DOMAIN Records THEN Records[url].lessons ELSE EmptyObject
         /\ \A other \in DOMAIN Records \ {url} :
              RecordsAfter[other] = Records[other]]_vars

\* A URL with a saved lesson was analysed again, next to another record
C33_Witness ==
  /\ lastOp.op = "reanalysis"
  /\ DOMAIN Records = VideoUrls
  /\ DOMAIN Records[lastOp.url].lessons # {}


\* C32: write-lesson for a URL without a record leaves the store as it was;
\* for a URL with a record it sets that record's lesson of the given chapter
\* title and changes nothing else, in that record or in any other.
C32_LessonFrame ==
  [][\A url \in VideoUrls, t \in Titles, from \in VideoUrls :
       WriteLesson(url, Chapter(t), LessonFor(from, Chapter(t))) =>
         IF url \notin DOMAIN Records
           THEN localStorage' = localStorage
           ELSE /\ DOMAIN RecordsAfter = DOMAIN Records
                /\ \A other \in DOMAIN Records \ {url} :
                     RecordsAfter[other] = Records[other]
                /\ RecordsAfter[url].url = Records[url].url
                /\ RecordsAfter[url].transcript = Records[url].transcript
                /\ RecordsAfter[url].chapters = Records[url].chapters
                /\ DOMAIN RecordsAfter[url].lessons =
                     DOMAIN Records[url].lessons \cup {t}
                /\ RecordsAfter[url].lessons[t] = LessonFor(from, Chapter(t))
                /\ \A kept \in DOMAIN Records[url].lessons \ {t} :
                     RecordsAfter[url].lessons[kept] = Records[url].lessons[kept]]_vars

\* A lesson was written for a URL without a record, after one was saved in
\* the record of the other URL
C32_Witness ==
  /\ lastOp.op = "noRecord"
  /\ Records # EmptyObject
  /\ \E url \in DOMAIN Records : DOMAIN Records[url].lessons # {}


\* ------------------------------------------------------------- the page
\* App.tsx: the URL and transcript fields, the analysis and lesson handlers
\* and their resumptions after getVideoChapters and generateLesson settle.
UrlInputs == VideoUrls \cup {"", "a.com"}
TranscriptInputs == Transcripts \cup {<<>>}

\* youtubeRegex.test(youtubeUrl), on the URLs typed here
youtubeRegexTest(url) == url \in VideoUrls

NoUrlMsg == "Please enter a YouTube URL."
BadUrlMsg == "Please enter a valid YouTube URL."
NoTranscriptMsg == "Please paste the video transcript."
AnalyzeErrorMsg == "Failed to analyze the video. Please check the transcript and try again."
GenerateErrorMsg == "Failed to generate the lesson for this chapter."

Elements(list) == {list[i] : i \in DOMAIN list}

\* onChange of the URL field
SetYoutubeUrl(url) ==
  /\ youtubeUrl' = url
  /\ UNCHANGED <<appTranscript, chapters, selectedChapter, lesson, isAnalyzing,
                 isGenerating, appError, savedLessonsData>>
  /\ UNCHANGED <<chatVars, storeVars, callVars>>

\* onChange of the transcript field
SetTranscript(text) ==
  /\ appTranscript' = text
  /\ UNCHANGED <<youtubeUrl, chapters, selectedChapter, lesson, isAnalyzing,
                 isGenerating, appError, savedLessonsData>>
  /\ UNCHANGED <<chatVars, storeVars, callVars>>

\* handleAnalyzeVideo up to await getVideoChapters; the button is disabled
\* while isAnalyzing
HandleAnalyzeVideo ==
  /\ ~isAnalyzing
  /\ LET invalid == IF youtubeUrl = "" THEN NoUrlMsg
                    ELSE IF ~youtubeRegexTest(youtubeUrl) THEN BadUrlMsg
                    ELSE IF ~Truthy(Trim(appTranscript)) THEN NoTranscriptMsg
                    ELSE NoError
     IN IF invalid # NoError
          THEN /\ appError' = invalid
               /\ UNCHANGED <<chapters, selectedChapter, lesson, isAnalyzing,
                              callVars>>
          ELSE /\ appError' = NoError
               /\ isAnalyzing' = TRUE
               /\ lesson' = null
               /\ chapters' = null
               /\ selectedChapter' = null
               /\ analysis' = Some([url |-> youtubeUrl, transcript |-> appTranscript])
               /\ analyzeCalls' = analyzeCalls + 1
               /\ chaptersUrl' = null
               /\ UNCHANGED <<generations, generateCalls>>
  /\ UNCHANGED <<youtubeUrl, appTranscript, isGenerating, savedLessonsData>>
  /\ UNCHANGED <<chatVars, storeVars>>

\* handleAnalyzeVideo after getVideoChapters resolved
AnalysisResolved(videoChapters) ==
  /\ analysis # null
  /\ LET call == The(analysis)
     IN /\ chapters' = Some(videoChapters)
        /\ localStorage' =
             saveVideoAnalysis(localStorage, call.url, call.transcript, videoChapters)
        /\ lastOp' = [op |-> IF call.url \in DOMAIN getSavedLessons(localStorage)
                               THEN "reanalysis" ELSE "analysis",
                      url |-> call.url]
        /\ chaptersUrl' = Some(call.url)
  /\ savedLessonsData' = getSavedLessons(localStorage')
  /\ isAnalyzing' = FALSE
  /\ analysis' = null
  /\ UNCHANGED <<youtubeUrl, appTranscript, selectedChapter, lesson,
                 isGenerating, appError>>
  /\ UNCHANGED <<chatVars, generations, analyzeCalls, generateCalls>>

\* handleAnalyzeVideo after getVideoChapters rejected
AnalysisRejected ==
  /\ analysis # null
  /\ appError' = AnalyzeErrorMsg
  /\ isAnalyzing' = FALSE
  /\ analysis' = null
  /\ UNCHANGED <<youtubeUrl, appTranscript, chapters, selectedChapter, lesson,
                 isGenerating, savedLessonsData>>
  /\ UNCHANGED <<chatVars, storeVars, generations, analyzeCalls, generateCalls,
                 chaptersUrl>>

\* handleGenerateLesson up to await generateLesson, from the button of a
\* displayed chapter (disabled while another chapter is being generated)
HandleGenerateLesson(chapter) ==
  /\ chapters # null
  /\ chapter \in Elements(The(chapters))
  /\ ~(isGenerating /\ selectedChapter # Some(chapter))
  /\ selectedChapter' = Some(chapter)
  /\ isGenerating' = TRUE
  /\ appError' = NoError
  /\ lesson' = null
  /\ generations' = generations \cup
       {[id |-> generateCalls + 1, url |-> youtubeUrl, chapter |-> chapter,
         of |-> chaptersUrl]}
  /\ generateCalls' = generateCalls + 1
  /\ UNCHANGED <<youtubeUrl, appTranscript, chapters, isAnalyzing, savedLessonsData>>
  /\ UNCHANGED <<chatVars, storeVars, analysis, analyzeCalls, chaptersUrl>>

\* handleGenerateLesson after generateLesson resolved
GenerationResolved(call) ==
  /\ call \in generations
  /\ LET generatedLesson == LessonFor(call.url, call.chapter)
     IN /\ lesson' = Some(generatedLesson)
        /\ localStorage' =
             saveLessonForVideo(localStorage, call.url, call.chapter, generatedLesson)
        /\ lastOp' = [op |-> IF call.url \in DOMAIN getSavedLessons(localStorage)
                               THEN "lesson" ELSE "noRecord",
                      url |-> call.url]
  /\ savedLessonsData' = getSavedLessons(localStorage')
  /\ isGenerating' = FALSE
  /\ generations' = generations \ {call}
  /\ UNCHANGED <<youtubeUrl, appTranscript, chapters, selectedChapter,
                 isAnalyzing, appError>>
  /\ UNCHANGED <<chatVars, analysis, analyzeCalls, generateCalls, chaptersUrl>>

\* handleGenerateLesson after generateLesson rejected
GenerationRejected(call) ==
  /\ call \in generations
  /\ appError' = GenerateErrorMsg
  /\ isGenerating' = FALSE
  /\ generations' = generations \ {call}
  /\ UNCHANGED <<youtubeUrl, appTranscript, chapters, selectedChapter, lesson,
                 isAnalyzing, savedLessonsData>>
  /\ UNCHANGED <<chatVars, storeVars, analysis, analyzeCalls, generateCalls,
                 chaptersUrl>>

\* handleLoadLesson, from the Load button SavedLessonItem shows for a chapter
\* of a saved record that has a lesson under its title
HandleLoadLesson(url, chapter) ==
  /\ url \in DOMAIN savedLessonsData
  /\ LET data == savedLessonsData[url]
     IN /\ chapter \in Elements(data.chapters)
        /\ chapter.title \in DOMAIN data.lessons
        /\ youtubeUrl' = data.url
        /\ appTranscript' = data.transcript
        /\ chapters' = Some(data.chapters)
        /\ selectedChapter' = Some(chapter)
        /\ lesson' = Some(data.lessons[chapter.title])
        /\ chaptersUrl' = Some(data.url)
  /\ appError' = NoError
  /\ UNCHANGED <<isAnalyzing, isGenerating, savedLessonsData>>
  /\ UNCHANGED <<chatVars, storeVars, analysis, generations, analyzeCalls,
                 generateCalls>>

\* handleClearSaved
HandleClearSaved ==
  /\ localStorage' = clearAllSavedData(localStorage)
  /\ lastOp' = [op |-> "clear", url |-> ""]
  /\ savedLessonsData' = EmptyObject
  /\ UNCHANGED <<youtubeUrl, appTranscript, chapters, selectedChapter, lesson,
                 isAnalyzing, isGenerating, appError>>
  /\ UNCHANGED <<chatVars, callVars>>

AppNext ==
  \/ \E url \in UrlInputs : SetYoutubeUrl(url)
  \/ \E text \in TranscriptInputs : SetTranscript(text)
  \/ analyzeCalls < MaxAnalyses /\ HandleAnalyzeVideo
  \/ \E videoChapters \in ChapterLists : AnalysisResolved(videoChapters)
  \/ AnalysisRejected
  \/ \E t \in Titles : generateCalls < MaxGenerations /\ HandleGenerateLesson(Chapter(t))
  \/ \E call \in generations : GenerationResolved(call)
  \/ \E call \in generations : GenerationRejected(call)
  \/ \E url \in VideoUrls, t \in Titles : HandleLoadLesson(url, Chapter(t))
  \/ HandleClearSaved

SpecApp == Init /\ [][AppNext]_vars


\* C31: in every record of the store, each key of the lessons map is the
\* title of a chapter in that record's chapters list.
C31_LessonsOfChapters ==
  \A url \in DOMAIN Records :
    \A t \in DOMAIN Records[url].lessons :
      \E chapter \in Elements(Records[url].chapters) : chapter.title = t

\* The displayed lesson was generated for the selected chapter, which is in
\* the displayed chapter list
DisplayedBelongs ==
  lesson # null =>
    /\ chapters # null
    /\ selectedChapter # null
    /\ The(selectedChapter) \in Elements(The(chapters))
    /\ The(lesson).title[2] = The(selectedChapter).title

\* C34: the displayed lesson always belongs to the selected chapter of the
\* displayed chapter list (so a generation that resolves after a new analysis
\* or a load does not replace it), and a generated lesson is stored under
\* the URL whose analysis produced its chapter.
C34_LessonOfSelection ==
  [][/\ DisplayedBelongs'
     /\ \A call \in generations :
          GenerationResolved(call) => Some(lastOp'.url) = call.of]_vars

====
